---- MODULE Spec2Model ----
(***************************************************************************)
(* Model of the Meshtastic antenna checker.                                *)
(*                                                                         *)
(*   Antenna-ping.py : get_node_info, run_traceroute and main (the         *)
(*                     reachability check and the probe loop)              *)
(*   to_csv.py       : process_log (run log -> records)                    *)
(*                                                                         *)
(* Text is modelled character by character: a Python str is a sequence of  *)
(* one-character strings, so that split, strip, lower, `in` and the three  *)
(* regular expressions are computed as the code computes them.  The column *)
(* separator U+2502 of the node table is written "|" here.  A float is an  *)
(* integer number of hundredths.                                           *)
(*                                                                         *)
(* Two specifications: Spec is one run of main, LogSpec one run of         *)
(* process_log.                                                            *)
(***************************************************************************)
EXTENDS Integers, Sequences, FiniteSets

VARIABLES
    pc,               \* main: position in main()
    args,             \* main: the parsed command line
    node_data,        \* main: stdout of `meshtastic --nodes`, a name in NodeTables
    node_info,        \* main: result of get_node_info
    i,                \* main: loop variable of the probe loop
    inbound_history,  \* main: SNR samples collected so far
    events,           \* main: calls made to run_traceroute and time.sleep
    stdout,           \* main: what main printed
    error,            \* main: the unhandled exception that ended main, if any
    lpc,              \* process_log: position in process_log()
    log,              \* process_log: the lines of the input file
    file_exists,      \* process_log: whether the input file can be opened
    line_no,          \* process_log: number of lines consumed
    current_test_name,\* process_log: the fold state
    data,             \* process_log: records collected so far
    csv,              \* process_log: rows written to the output file
    lout              \* process_log: what process_log printed

vars == <<pc, args, node_data, node_info, i, inbound_history, events, stdout,
          error, lpc, log, file_exists, line_no, current_test_name, data, csv,
          lout>>

main_vars == <<pc, args, node_data, node_info, i, inbound_history, events,
               stdout, error>>

log_vars == <<lpc, log, file_exists, line_no, current_test_name, data, csv,
              lout>>

----------------------------------------------------------------------------
(* Python str operations *)

Digits == {"0", "1", "2", "3", "4", "5", "6", "7", "8", "9"}

Whitespace == {" ", "\t"}

ToLower ==
    [A |-> "a", B |-> "b", C |-> "c", D |-> "d", E |-> "e", F |-> "f",
     G |-> "g", H |-> "h", I |-> "i", J |-> "j", K |-> "k", L |-> "l",
     M |-> "m", N |-> "n", O |-> "o", P |-> "p", Q |-> "q", R |-> "r",
     S |-> "s", T |-> "t", U |-> "u", V |-> "v", W |-> "w", X |-> "x",
     Y |-> "y", Z |-> "z"]

SetMin(S) == CHOOSE x \in S : \A y \in S : x <= y

SetMax(S) == CHOOSE x \in S : \A y \in S : x >= y

\* s[p:].startswith(sub), 1-based
MatchAt(sub, s, p) ==
    /\ p >= 1
    /\ p + Len(sub) - 1 <= Len(s)
    /\ SubSeq(s, p, p + Len(sub) - 1) = sub

\* sub in s
Contains(sub, s) == \E p \in 1..(Len(s) + 1) : MatchAt(sub, s, p)

\* s.find(sub, from), 1-based, 0 when absent
Find(sub, s, from) ==
    LET hits == {p \in from..(Len(s) + 1) : MatchAt(sub, s, p)}
    IN  IF hits = {} THEN 0 ELSE SetMin(hits)

\* s.split(sep)
RECURSIVE split(_, _)
split(s, sep) ==
    LET p == Find(sep, s, 1)
    IN  IF p = 0
        THEN <<s>>
        ELSE <<SubSeq(s, 1, p - 1)>> \o split(SubSeq(s, p + Len(sep), Len(s)), sep)

\* s.strip()
strip(s) ==
    LET keep == {p \in 1..Len(s) : s[p] \notin Whitespace}
    IN  IF keep = {} THEN << >> ELSE SubSeq(s, SetMin(keep), SetMax(keep))

\* s.lower()
lower(s) ==
    [p \in 1..Len(s) |-> IF s[p] \in DOMAIN ToLower THEN ToLower[s[p]] ELSE s[p]]

\* [f(x) for x in xs]
StripAll(xs) == [p \in 1..Len(xs) |-> strip(xs[p])]

NonEmpty(s) == s # << >>

----------------------------------------------------------------------------
(* Python values *)

\* None and a float share one shape so that they can be compared
PyNone == [isNone |-> TRUE, val |-> 0]

Float(v) == [isNone |-> FALSE, val |-> v]

\* `if x:` for x None or a float
Truthy(x) == ~x.isNone /\ x.val # 0

\* number of hundredths in one unit: floats are kept to two decimals
FloatScale == 100

DigitVal ==
    [d \in Digits |->
        CASE d = "0" -> 0 [] d = "1" -> 1 [] d = "2" -> 2 [] d = "3" -> 3
          [] d = "4" -> 4 [] d = "5" -> 5 [] d = "6" -> 6 [] d = "7" -> 7
          [] d = "8" -> 8 [] d = "9" -> 9]

RECURSIVE DigitsVal(_)
DigitsVal(ds) ==
    IF ds = << >> THEN 0
    ELSE 10 * DigitsVal(SubSeq(ds, 1, Len(ds) - 1)) + DigitVal[ds[Len(ds)]]

AllDigits(s) == \A p \in 1..Len(s) : s[p] \in Digits

\* float(text) for a text the SNR pattern captured, in hundredths
float(text) ==
    LET neg  == text # << >> /\ text[1] = "-"
        body == IF text # << >> /\ text[1] \in {"-", "+"} THEN Tail(text) ELSE text
        dot  == Find(<<".">>, body, 1)
        ip   == IF dot = 0 THEN body ELSE SubSeq(body, 1, dot - 1)
        fp   == IF dot = 0 THEN << >> ELSE SubSeq(body, dot + 1, Len(body))
        f2   == SubSeq(fp \o <<"0", "0">>, 1, 2)
        mag  == DigitsVal(ip) * FloatScale + DigitsVal(f2)
    IN  Float(IF neg THEN 0 - mag ELSE mag)

\* int(text): [ok |-> FALSE] stands for ValueError
int(text) ==
    LET t    == strip(text)
        neg  == t # << >> /\ t[1] = "-"
        body == IF t # << >> /\ t[1] \in {"-", "+"} THEN Tail(t) ELSE t
    IN  IF body # << >> /\ AllDigits(body)
        THEN [ok |-> TRUE, val |-> IF neg THEN 0 - DigitsVal(body) ELSE DigitsVal(body)]
        ELSE [ok |-> FALSE, val |-> 0]

\* dict(pairs): keys in order of first insertion, a repeated key keeps its
\* place and takes the later value
RECURSIVE dict(_)
dict(pairs) ==
    IF pairs = << >> THEN << >>
    ELSE LET init == dict(SubSeq(pairs, 1, Len(pairs) - 1))
             kv   == pairs[Len(pairs)]
             at   == {p \in 1..Len(init) : init[p][1] = kv[1]}
         IN  IF at = {} THEN Append(init, kv)
             ELSE [p \in 1..Len(init) |-> IF p \in at THEN kv ELSE init[p]]

\* zip(a, b)
zip(a, b) ==
    LET n == IF Len(a) < Len(b) THEN Len(a) ELSE Len(b)
    IN  [p \in 1..n |-> <<a[p], b[p]>>]

\* None and a dict share one shape
NoneInfo == [isNone |-> TRUE, items |-> << >>]

Info(items) == [isNone |-> FALSE, items |-> items]

Keys(d) == [p \in 1..Len(d.items) |-> d.items[p][1]]

HasKey(d, k) == \E p \in 1..Len(d.items) : d.items[p][1] = k

Get(d, k) == d.items[CHOOSE p \in 1..Len(d.items) : d.items[p][1] = k][2]

----------------------------------------------------------------------------
(* Antenna-ping.py: get_node_info *)

ColSep == <<"|">>

User == <<"U","s","e","r">>

ID == <<"I","D">>

Hops == <<"H","o","p","s">>

\* [c.strip() for c in line.split(sep) if c.strip()]
Cells(line) == SelectSeq(StripAll(split(line, ColSep)), NonEmpty)

IsHeaderLine(line) == Contains(User, line) /\ Contains(ID, line)

IsDataLine(line) ==
    /\ MatchAt(ColSep, strip(line), 1)
    /\ Contains(ColSep, line)
    /\ ~Contains(User, line)

get_node_info(node_id, lines) ==
    LET search_term == lower(node_id)
        headers     == {p \in 1..Len(lines) : IsHeaderLine(lines[p])}
    IN  IF headers = {} THEN NoneInfo
        ELSE
          LET header_line == lines[SetMin(headers)]
              columns     == Cells(header_line)
              data_lines  == SelectSeq(lines, IsDataLine)
              hits        == {p \in 1..Len(data_lines) :
                                 Contains(search_term, lower(data_lines[p]))}
          IN  IF hits = {} THEN NoneInfo
              ELSE Info(dict(zip(columns, Cells(data_lines[SetMin(hits)]))))

----------------------------------------------------------------------------
(* Antenna-ping.py: run_traceroute *)

BackMarker == <<"R","o","u","t","e"," ","t","r","a","c","e","d"," ","b","a","c","k"," ","t","o"," ","u","s",":">>

Arrow == <<"-","-",">">>

DbClose == <<"d","B",")">>

\* the whole of t matches [-+]?\d*\.?\d+
IsSnrNumber(t) ==
    LET body == IF t # << >> /\ t[1] \in {"-", "+"} THEN Tail(t) ELSE t
        dots == {p \in 1..Len(body) : body[p] = "."}
    IN  /\ body # << >>
        /\ \A p \in 1..Len(body) : body[p] \in Digits \cup {"."}
        /\ Cardinality(dots) <= 1
        /\ body[Len(body)] \in Digits

\* re.search(r"\(([-+]?\d*\.?\d+)dB\)", s): << >> for no match, else <<group(1)>>
SnrSearch(s) ==
    LET ends(p) == {q \in (p + 1)..Len(s) :
                       MatchAt(DbClose, s, q) /\ IsSnrNumber(SubSeq(s, p + 1, q - 1))}
        starts  == {p \in 1..Len(s) : s[p] = "(" /\ ends(p) # {}}
    IN  IF starts = {} THEN << >>
        ELSE LET p == SetMin(starts)
                 q == SetMin(ends(p))
             IN  <<SubSeq(s, p + 1, q - 1)>>

Outcome(snr, message) == [snr |-> snr, message |-> message]

\* run_traceroute on the stdout of one `meshtastic --traceroute`;
\* result.raised stands for subprocess.run raising (timeout, missing binary)
run_traceroute(result) ==
    IF result.raised THEN Outcome(PyNone, "FAIL: Exception")
    ELSE
      LET lines   == result.stdout
          markers == {p \in 1..Len(lines) : Contains(BackMarker, lines[p])}
      IN  IF markers = {} \/ SetMin(markers) + 1 > Len(lines)
          THEN Outcome(PyNone, "Route lost or timed out")
          ELSE
            LET route_back == strip(lines[SetMin(markers) + 1])
                hops       == StripAll(split(route_back, Arrow))
                match      == SnrSearch(hops[Len(hops)])
            IN  IF Len(hops) = 2 /\ match # << >>
                THEN Outcome(float(match[1]), "OK")
                ELSE IF Len(hops) > 2
                THEN Outcome(PyNone, "FAIL: Reponse not direct")
                ELSE Outcome(PyNone, "FAIL: no hops")

----------------------------------------------------------------------------
(* to_csv.py: the two patterns of process_log *)

CheckingOn == <<"C","h","e","c","k","i","n","g"," ","o","n"," ">>

ThreeDots == <<".",".",".">>

DbSuffix == <<"d","B">>

Unknown == <<"u","n","k","n","o","w","n">>

Null == <<"n","u","l","l">>

\* test_name_pattern.search(line), r"Checking on (.*?)\.\.\.":
\* << >> for no match, else <<group(1)>>
NameSearch(line) ==
    LET p == Find(CheckingOn, line, 1)
        q == IF p = 0 THEN 0 ELSE Find(ThreeDots, line, p + Len(CheckingOn))
    IN  IF q = 0 THEN << >> ELSE <<SubSeq(line, p + Len(CheckingOn), q - 1)>>

\* \[(\d{2}:\d{2}:\d{2})\] matches at p
TimestampAt(line, p) ==
    /\ p >= 1
    /\ p + 9 <= Len(line)
    /\ line[p] = "["
    /\ \A k \in {1, 2, 4, 5, 7, 8} : line[p + k] \in Digits
    /\ \A k \in {3, 6} : line[p + k] = ":"
    /\ line[p + 9] = "]"

\* the whole of t matches -?\d+\.?\d*
IsTraceNumber(t) ==
    LET body == IF t # << >> /\ t[1] = "-" THEN Tail(t) ELSE t
        dots == {p \in 1..Len(body) : body[p] = "."}
    IN  /\ body # << >>
        /\ body[1] \in Digits
        /\ \A p \in 1..Len(body) : body[p] \in Digits \cup {"."}
        /\ Cardinality(dots) <= 1

\* (?:[:\s](-?\d+\.?\d*)dB)? tried at position e: << >> when the group does
\* not take part in the match, else <<group(2)>>
SnrGroupAt(line, e) ==
    LET ends == {q \in (e + 2)..Len(line) :
                    MatchAt(DbSuffix, line, q) /\ IsTraceNumber(SubSeq(line, e + 1, q - 1))}
    IN  IF e <= Len(line) /\ line[e] \in {":"} \cup Whitespace /\ ends # {}
        THEN <<SubSeq(line, e + 1, SetMin(ends) - 1)>>
        ELSE << >>

\* trace_pattern.search(line),
\* r"\[(\d{2}:\d{2}:\d{2})\].*?(?:[:\s](-?\d+\.?\d*)dB)?": the lazy .*? takes
\* no character, because the optional group after it may match nothing, so
\* the group is tried right after the "]" only.
\* << >> for no match, else <<group(1), group(2) or << >> >> wrapped as a record
TraceSearch(line) ==
    LET starts == {p \in 1..Len(line) : TimestampAt(line, p)}
    IN  IF starts = {} THEN [matched |-> FALSE, timestamp |-> << >>, snr |-> << >>]
        ELSE LET p == SetMin(starts)
             IN  [matched   |-> TRUE,
                  timestamp |-> SubSeq(line, p + 1, p + 8),
                  snr       |-> SnrGroupAt(line, p + 10)]

\* process_line without the `continue` of line 26: a header line that also
\* carries a timestamp yields a record
process_line_NoContinue(name, records, line) ==
    LET name_match  == NameSearch(line)
        trace_match == TraceSearch(line)
        now         == IF name_match # << >> THEN name_match[1] ELSE name
    IN  IF trace_match.matched
        THEN [name    |-> now,
              records |-> Append(records,
                            <<now, trace_match.timestamp,
                              IF trace_match.snr # << >> THEN trace_match.snr[1]
                              ELSE Null>>)]
        ELSE [name |-> now, records |-> records]

\* lines 23-33: the body of the loop over the lines, on the fold state
process_line(name, records, line) ==
    LET name_match  == NameSearch(line)
        trace_match == TraceSearch(line)
    IN  IF name_match # << >>
        THEN [name |-> name_match[1], records |-> records]
        ELSE IF trace_match.matched
        THEN [name    |-> name,
              records |-> Append(records,
                            <<name, trace_match.timestamp,
                              IF trace_match.snr # << >> THEN trace_match.snr[1]
                              ELSE Null>>)]
        ELSE [name |-> name, records |-> records]

----------------------------------------------------------------------------
(* Inputs of main: command lines, node tables, traceroute outputs *)

\* largest repeat count tried
MaxRepeat == 3

\* repeat counts tried: argparse type=int accepts every integer
RepeatValues == (0 - 1)..MaxRepeat

\* --minutes values tried: argparse type=float accepts negative numbers too
MinutesValues == {0 - 1, 0, 15}

Targets == {<<"b","o","b">>, <<"A","L">>, <<"e","v","e">>, <<"z","e","d">>, <<"k","i","m">>, <<"d","a","n">>, <<"g","h","o","s","t">>}

RuleLine == <<"+","-","-","-","-","-","-","+","-","-","-","-","-","+","-","-","-","-","-","-","+">>

HeaderA == <<"|"," ","U","s","e","r"," ","|"," ","I","D"," ","|"," ","H","o","p","s"," ","|">>

HeaderB == <<"|"," ","U","s","e","r"," ","|"," ","N","o","d","e","I","D"," ","|"," ","H","o","p","s"," ","|">>

RowBob == <<"|"," ","b","o","b"," ","|"," ","!","a","1"," ","|"," ","0"," ","|">>

RowAl == <<"|"," ","A","l"," ","|"," ","!","b","2"," ","|"," ","1"," ","|">>

RowEve == <<"|"," ","e","v","e"," ","|"," ","!","c","3"," ","|"," ","-","1"," ","|">>

RowZed == <<"|"," ","z","e","d"," ","|"," ","!","d","4"," ","|"," ","?"," ","|">>

RowKim == <<"|"," ","k","i","m"," ","|"," "," ","|"," ","0"," ","|">>

RowDan == <<"|"," ","d","a","n"," ","|"," ","!","e","5"," ","|"," ","0"," ","|"," ","x"," ","|">>

RowKimB == <<"|"," ","k","i","m"," ","|"," ","!","f","6"," ","|"," ","0"," ","|">>

TableA == <<RuleLine, HeaderA, RuleLine, RowBob, RowAl, RowEve, RowZed, RowKim,
            RowDan, RuleLine>>

TableB == <<RuleLine, HeaderB, RuleLine, RowKimB, RuleLine>>

TableNoHeader == <<RuleLine, RowBob, RuleLine>>

\* the node tables tried, by name; get_node_list returns "" when the query
\* raises, which has no lines
NodeTables ==
    [table_a   |-> TableA,
     table_b   |-> TableB,
     no_header |-> TableNoHeader,
     no_output |-> << >>]

Ran(lines) == [raised |-> FALSE, stdout |-> lines]

TowardsLine == <<"R","o","u","t","e"," ","t","r","a","c","e","d"," ","t","o","w","a","r","d","s"," ","d","e","s","t","i","n","a","t","i","o","n",":">>

ProbeResults ==
    [ok_neg    |-> Ran(<<TowardsLine, <<"m","e"," ","-","-",">"," ","!","a","1"," ","(","-","6",".","5","d","B",")">>, BackMarker,
                         <<"!","a","1"," ","-","-",">"," ","m","e"," ","(","-","7",".","0","d","B",")">>>>),
     ok_zero   |-> Ran(<<BackMarker, <<"!","a","1"," ","-","-",">"," ","m","e"," ","(","0",".","0","d","B",")">>>>),
     ok_pos    |-> Ran(<<BackMarker, <<"!","a","1"," ","-","-",">"," ","m","e"," ","(","+","3",".","0","d","B",")">>>>),
     no_value  |-> Ran(<<BackMarker, <<"!","a","1"," ","-","-",">"," ","m","e"," ","(","?","d","B",")">>>>),
     relayed   |-> Ran(<<BackMarker, <<"!","a","1"," ","-","-",">"," ","!","x","9"," ","(","2",".","0","d","B",")"," ","-","-",">"," ","m","e"," ","(","1",".","0","d","B",")">>>>),
     no_arrow  |-> Ran(<<BackMarker, <<"m","e">>>>),
     cut_short |-> Ran(<<TowardsLine, <<"m","e"," ","-","-",">"," ","!","a","1"," ","(","-","6",".","5","d","B",")">>, BackMarker>>),
     timed_out |-> Ran(<<<<"T","i","m","e","d"," ","o","u","t"," ","w","a","i","t","i","n","g"," ","f","o","r"," ","t","r","a","c","e","r","o","u","t","e">>>>),
     raised    |-> [raised |-> TRUE, stdout |-> << >>]]

\* run_traceroute of each output tried
ProbeOutcomes ==
    [out \in DOMAIN ProbeResults |-> run_traceroute(ProbeResults[out])]

----------------------------------------------------------------------------
(* Antenna-ping.py: main *)

SecondsPerMinute == 60

Printed(kind, message, snr) == [kind |-> kind, message |-> message, snr |-> snr]

ProbeEvent(out, outcome) ==
    [kind |-> "probe", out |-> out, snr |-> outcome.snr,
     message |-> outcome.message, secs |-> 0]

SleepEvent(secs) ==
    [kind |-> "sleep", out |-> "", snr |-> PyNone, message |-> "", secs |-> secs]

RECURSIVE Sum(_)
Sum(xs) == IF xs = << >> THEN 0 ELSE xs[1] + Sum(Tail(xs))

\* n / d rounded to the nearest integer (d > 0): the mean to two decimals
RoundDiv(n, d) ==
    IF n >= 0 THEN (2 * n + d) \div (2 * d)
    ELSE 0 - ((2 * (0 - n) + d) \div (2 * d))

mean(xs) == RoundDiv(Sum(xs), Len(xs))

\* the hop check with the bound off by one: one hop passes as direct
IsNotDirect_OverOne(hops) == hops > 1

\* the hop check of line 123
IsNotDirect(hops) == hops > 0

\* the loop with one attempt too many, as range(args.repeat + 1)
LoopContinues_OneMore(k, repeat) == k <= repeat

\* range(args.repeat) has an element left
LoopContinues(k, repeat) == k < repeat

\* `if snr:` of line 139
IsSample(snr) == Truthy(snr)

\* the sleep without the "except the last" test: i < args.repeat
SleepsAfter_EveryAttempt(k, repeat) == k < repeat

\* the sleep condition of line 145
SleepsAfter(k, repeat) == k < repeat - 1

\* process_log is not running
LogIdle ==
    /\ lpc = "idle"
    /\ log = << >>
    /\ file_exists = FALSE
    /\ line_no = 0
    /\ current_test_name = << >>
    /\ data = << >>
    /\ csv = << >>
    /\ lout = << >>

Init ==
    /\ pc = "start"
    /\ args \in [target : Targets, repeat : RepeatValues,
                 minutes : MinutesValues, quiet : BOOLEAN, info : BOOLEAN]
    /\ node_data \in DOMAIN NodeTables
    /\ node_info = NoneInfo
    /\ i = 0
    /\ inbound_history = << >>
    /\ events = << >>
    /\ stdout = << >>
    /\ error = "none"
    /\ LogIdle

\* lines 115-120: announce, query the node table, find the target
main_query ==
    /\ pc = "start"
    /\ node_info' = get_node_info(args.target, NodeTables[node_data])
    /\ stdout' = stdout \o <<Printed("checking", "Checking on", PyNone)>>
                        \o (IF args.info
                            THEN <<Printed("info", "node_info", PyNone)>>
                            ELSE << >>)
    /\ pc' = "check"
    /\ UNCHANGED <<args, node_data, i, inbound_history, events, error>>
    /\ UNCHANGED log_vars

Crash(exception) ==
    /\ pc' = "crashed"
    /\ error' = exception

\* lines 122-133: the reachability check
main_hop_check ==
    /\ pc = "check"
    /\ IF node_info.isNone
       THEN Crash("TypeError") /\ UNCHANGED stdout
       ELSE IF ~HasKey(node_info, Hops)
       THEN Crash("KeyError: Hops") /\ UNCHANGED stdout
       ELSE IF ~int(Get(node_info, Hops)).ok
       THEN Crash("ValueError: int") /\ UNCHANGED stdout
       ELSE IF IsNotDirect(int(Get(node_info, Hops)).val)
       THEN /\ stdout' = Append(stdout,
                           Printed("abort", "Aborting: Target is not direct", PyNone))
            /\ pc' = "exited"
            /\ UNCHANGED error
       ELSE /\ stdout' = stdout \o
                           (IF args.quiet THEN << >>
                            ELSE <<Printed("direct", "Target is direct, ", PyNone),
                                   Printed("starting", "Starting", PyNone)>>)
            /\ pc' = "loop"
            /\ UNCHANGED error
    /\ i' = 0
    /\ inbound_history' = << >>
    /\ UNCHANGED <<args, node_data, node_info, events>>
    /\ UNCHANGED log_vars

\* lines 135-143 and the test of line 145: one probe attempt
main_probe ==
    /\ pc = "loop"
    /\ LoopContinues(i, args.repeat)
    /\ IF ~HasKey(node_info, ID)
       THEN /\ Crash("KeyError: ID")
            /\ stdout' = stdout \o
                           (IF args.quiet THEN << >>
                            ELSE <<Printed("trace", "Trace", PyNone)>>)
            /\ UNCHANGED <<i, inbound_history, events>>
       ELSE \E out \in DOMAIN ProbeResults :
              LET outcome == ProbeOutcomes[out]
              IN  /\ events' = Append(events, ProbeEvent(out, outcome))
                  /\ inbound_history' =
                        IF IsSample(outcome.snr)
                        THEN Append(inbound_history, outcome.snr.val)
                        ELSE inbound_history
                  /\ stdout' = stdout \o
                        (IF args.quiet THEN << >>
                         ELSE <<Printed("trace", "Trace", PyNone),
                                IF IsSample(outcome.snr)
                                THEN Printed("result", outcome.message, outcome.snr)
                                ELSE Printed("result", outcome.message, PyNone)>>)
                  /\ IF SleepsAfter(i, args.repeat)
                     THEN pc' = "sleep" /\ i' = i
                     ELSE pc' = "loop" /\ i' = i + 1
                  /\ UNCHANGED error
    /\ UNCHANGED <<args, node_data, node_info>>
    /\ UNCHANGED log_vars

\* line 146: time.sleep raises ValueError on a negative length
main_sleep ==
    /\ pc = "sleep"
    /\ LET delay_seconds == args.minutes * SecondsPerMinute
       IN  IF delay_seconds < 0
           THEN Crash("ValueError: sleep") /\ UNCHANGED <<events, i>>
           ELSE /\ events' = Append(events, SleepEvent(delay_seconds))
                /\ i' = i + 1
                /\ pc' = "loop"
                /\ UNCHANGED error
    /\ UNCHANGED <<args, node_data, node_info, inbound_history, stdout>>
    /\ UNCHANGED log_vars

\* lines 148-150: the average, if any sample was collected
main_report ==
    /\ pc = "loop"
    /\ ~LoopContinues(i, args.repeat)
    /\ stdout' = IF inbound_history # << >>
                 THEN Append(stdout, Printed("avg", "Avg Inbound",
                                             Float(mean(inbound_history))))
                 ELSE stdout
    /\ pc' = "done"
    /\ UNCHANGED <<args, node_data, node_info, i, inbound_history, events, error>>
    /\ UNCHANGED log_vars

Next ==
    \/ main_query
    \/ main_hop_check
    \/ main_probe
    \/ main_sleep
    \/ main_report

Spec == Init /\ [][Next]_vars

----------------------------------------------------------------------------
(* Properties of main *)

\* main got past the reachability check (it entered the probe loop)
PastCheck ==
    \/ pc \in {"loop", "sleep", "done"}
    \/ pc = "crashed" /\ error \in {"KeyError: ID", "ValueError: sleep"}

Kinds(evts) == [k \in 1..Len(evts) |-> evts[k].kind]

NumProbes == Cardinality({k \in 1..Len(events) : events[k].kind = "probe"})

HasPrinted(kind) == \E k \in 1..Len(stdout) : stdout[k].kind = kind

IsOk(e) == e.kind = "probe" /\ e.message = "OK"

SnrOf(evts) == [k \in 1..Len(evts) |-> evts[k].snr.val]

\* C1: after the loop, inbound_history is exactly the SNR values of the
\* attempts whose outcome has status OK, in attempt order (an OK attempt with
\* SNR zero included), and nothing from failed attempts.
C1_HistoryIsEveryOkSnr ==
    pc = "done" => inbound_history = SnrOf(SelectSeq(events, IsOk))

\* C3: when get_node_info returns None, main reports "aborting: target not
\* found" and exits before the hop check and before any probe; it does not
\* end in an unhandled exception.
C3_AbsentTargetIsReported ==
    (pc \notin {"start", "check"} /\ node_info.isNone) =>
        /\ pc = "exited"
        /\ error = "none"
        /\ HasPrinted("not_found")
        /\ events = << >>

\* C4: the target is treated as direct, and main goes on to probe, if and
\* only if the "Hops" field parses to exactly 0; every other integer (negative
\* ones included) aborts the run; a non-numeric value is a fatal error.
C4_DirectIffHopsZero ==
    (pc \notin {"start", "check"} /\ ~node_info.isNone /\ HasKey(node_info, Hops)) =>
        LET hops == int(Get(node_info, Hops))
        IN  /\ ~hops.ok => pc = "crashed" /\ error = "ValueError: int"
            /\ hops.ok => (PastCheck <=> hops.val = 0)
            /\ (hops.ok /\ hops.val # 0) => pc = "exited" /\ HasPrinted("abort")

\* the RouteParser decision table, read off the probe output
MarkerLines(result) ==
    {p \in 1..Len(result.stdout) : Contains(BackMarker, result.stdout[p])}

RouteLost(result) ==
    \/ MarkerLines(result) = {}
    \/ SetMin(MarkerLines(result)) = Len(result.stdout)

HopChain(result) ==
    split(strip(result.stdout[SetMin(MarkerLines(result)) + 1]), Arrow)

LastHopValue(result) ==
    SnrSearch(HopChain(result)[Len(HopChain(result))])

FollowsDecisionTable(e) ==
    LET result == ProbeResults[e.out]
    IN  IF RouteLost(result)
        THEN e.snr = PyNone /\ e.message = "Route lost or timed out"
        ELSE IF Len(HopChain(result)) = 2 /\ LastHopValue(result) # << >>
        THEN e.snr = float(LastHopValue(result)[1]) /\ e.message = "OK"
        ELSE IF Len(HopChain(result)) = 2
        THEN e.snr = PyNone /\ e.message \notin {"OK", "FAIL: no hops"}
        ELSE IF Len(HopChain(result)) > 2
        THEN e.snr = PyNone /\ e.message = "FAIL: Reponse not direct"
        ELSE e.snr = PyNone /\ e.message = "FAIL: no hops"

\* C5: every outcome of run_traceroute follows the decision table: no marker
\* or no line after it gives "route lost or timed out"; a chain of exactly 2
\* with a parenthesised dB value gives (value, OK); a chain of exactly 2
\* without one gives a failure status of its own, distinct from "no hops";
\* a longer chain gives "response not direct"; a shorter one "no hops".
C5_OutcomeFollowsDecisionTable ==
    \A k \in 1..Len(events) :
        (events[k].kind = "probe" /\ ~ProbeResults[events[k].out].raised) =>
            FollowsDecisionTable(events[k])

\* C6 as stated: once the reachability check has passed, for every repeat
\* count the command line accepts, run_traceroute is invoked at most `repeat`
\* times and at least once.
C6_AtMostRepeatAtLeastOnce ==
    PastCheck =>
        /\ NumProbes > 0 => NumProbes <= args.repeat
        /\ pc \in {"done", "crashed"} =>
              NumProbes >= 1 /\ NumProbes <= args.repeat

\* C6 as amended: once the reachability check has passed, for every repeat
\* count R >= 1 and a NodeRecord that has an "ID" field, run_traceroute is
\* invoked at most R times and at least once, exactly R times when the run
\* completes; for R <= 0 it is never invoked.
C6_RepeatTimesWhenPositive ==
    PastCheck =>
        /\ (args.repeat >= 1 /\ HasKey(node_info, ID)) =>
              /\ NumProbes <= args.repeat
              /\ pc \in {"done", "crashed"} => NumProbes >= 1
              /\ pc = "done" => NumProbes = args.repeat
        /\ args.repeat <= 0 => NumProbes = 0

C6_Witness ==
    /\ pc = "done"
    /\ args.repeat = 3
    /\ NumProbes = 3

\* probe, (sleep, probe) repeated: the kinds of a trace of length n
Alternating(n) == [k \in 1..n |-> IF k % 2 = 1 THEN "probe" ELSE "sleep"]

HeaderLines(lines) == {p \in 1..Len(lines) : IsHeaderLine(lines[p])}

HasMatchingRow(node_id, lines) ==
    \E p \in 1..Len(lines) :
        IsDataLine(lines[p]) /\ Contains(lower(node_id), lower(lines[p]))

\* C9: for a table with a header row and a data row containing the search
\* term, get_node_info returns a record whose keys are exactly the trimmed,
\* non-empty header column names, all of them, in header order, also when
\* cells of the row are empty or the row has another number of cells.
C9_KeysAreHeaderColumns ==
    LET lines == NodeTables[node_data]
    IN  (/\ pc # "start"
         /\ HeaderLines(lines) # {}
         /\ HasMatchingRow(args.target, lines)) =>
            /\ ~node_info.isNone
            /\ Keys(node_info) = Cells(lines[SetMin(HeaderLines(lines))])

\* C10: no probe is invoked before the node-table query and the hop check
\* are done, and when the target is found with a hop count > 0 the run
\* reports the abort and ends with no probe and no sleep.
C10_CheckGatesProbes ==
    /\ pc \in {"start", "check"} => events = << >>
    /\ events # << >> =>
          /\ ~node_info.isNone
          /\ HasKey(node_info, Hops)
          /\ int(Get(node_info, Hops)).ok
    /\ (/\ pc \notin {"start", "check"}
        /\ ~node_info.isNone
        /\ HasKey(node_info, Hops)
        /\ int(Get(node_info, Hops)).ok
        /\ int(Get(node_info, Hops)).val > 0) =>
            /\ pc = "exited"
            /\ error = "none"
            /\ HasPrinted("abort")
            /\ events = << >>

C10_Witness ==
    /\ pc = "exited"
    /\ ~node_info.isNone
    /\ int(Get(node_info, Hops)).val = 1
    /\ HasPrinted("abort")

----------------------------------------------------------------------------
(* to_csv.py: process_log *)

\* longest log tried, in lines
MaxLines == 3

LogLineText ==
    [hdr_pepper  |-> <<"C","h","e","c","k","i","n","g"," ","o","n"," ","p","e","p","p","e","r",".",".",".">>,
     hdr_salt    |-> <<"C","h","e","c","k","i","n","g"," ","o","n"," ","s","a","l","t",".",".",".">>,
     starting    |-> <<"T","a","r","g","e","t"," ","i","s"," ","d","i","r","e","c","t",","," ","S","t","a","r","t","i","n","g"," ","1"," ","i","t","e","r","a","t","i","o","n","s",","," ","e","v","e","r","y"," ","1","5",".","0"," ","m","i","n","u","t","e","s",".",".",".">>,
     trace_ok    |-> <<"[","1","0",":","0","0",":","0","0","]"," ","T","r","a","c","e"," ","1","/","1",":"," ","O","K",":"," ","-","5",".","0","d","B">>,
     trace_fail  |-> <<"[","1","0",":","0","5",":","0","0","]"," ","T","r","a","c","e"," ","1","/","1",":"," ","F","A","I","L","E","D">>,
     bare_db     |-> <<"[","1","0",":","1","0",":","0","0","]"," ","4",".","5","d","B">>,
     hdr_with_ts |-> <<"[","1","0",":","1","5",":","0","0","]"," ","C","h","e","c","k","i","n","g"," ","o","n"," ","d","i","l","l",".",".","."," ","2","d","B">>,
     avg         |-> <<"A","v","g"," ","I","n","b","o","u","n","d"," ","f","o","r"," ","p","e","p","p","e","r",":"," "," ","-","5",".","0","0"," ","d","B">>]

Logs == UNION {[1..n -> DOMAIN LogLineText] : n \in 0..MaxLines}

CsvHeader == <<<<"t","e","s","t","_","n","a","m","e">>, <<"t","i","m","e","s","t","a","m","p">>, <<"S","N","R">>>>

\* main is not running
MainIdle ==
    /\ pc = "idle"
    /\ args = [target |-> << >>, repeat |-> 0, minutes |-> 0,
               quiet |-> FALSE, info |-> FALSE]
    /\ node_data = "no_output"
    /\ node_info = NoneInfo
    /\ i = 0
    /\ inbound_history = << >>
    /\ events = << >>
    /\ stdout = << >>
    /\ error = "none"

LogInit ==
    /\ lpc = "start"
    /\ file_exists \in BOOLEAN
    /\ log \in IF file_exists THEN Logs ELSE {<< >>}
    /\ line_no = 0
    /\ current_test_name = << >>
    /\ data = << >>
    /\ csv = << >>
    /\ lout = << >>
    /\ MainIdle

\* lines 16-20 and 43-44: set up the fold, open the input file
log_open ==
    /\ lpc = "start"
    /\ data' = << >>
    /\ current_test_name' = Unknown
    /\ IF file_exists
       THEN lpc' = "reading" /\ UNCHANGED lout
       ELSE lpc' = "done" /\ lout' = Append(lout, "Error: File not found.")
    /\ UNCHANGED <<log, file_exists, line_no, csv>>
    /\ UNCHANGED main_vars

\* lines 21-33: one line of the input
log_read_line ==
    /\ lpc = "reading"
    /\ line_no < Len(log)
    /\ LET step == process_line(current_test_name, data,
                                LogLineText[log[line_no + 1]])
       IN  /\ current_test_name' = step.name
           /\ data' = step.records
    /\ line_no' = line_no + 1
    /\ UNCHANGED <<lpc, log, file_exists, csv, lout>>
    /\ UNCHANGED main_vars

\* lines 35-41: write the header row and the records, report the count
log_write_csv ==
    /\ lpc = "reading"
    /\ line_no = Len(log)
    /\ csv' = <<CsvHeader>> \o data
    /\ lout' = Append(lout, "Processed traces")
    /\ lpc' = "done"
    /\ UNCHANGED <<log, file_exists, line_no, current_test_name, data>>
    /\ UNCHANGED main_vars

LogNext ==
    \/ log_open
    \/ log_read_line
    \/ log_write_csv

LogSpec == LogInit /\ [][LogNext]_vars

----------------------------------------------------------------------------
(* Properties of process_log *)

LineAt(j) == LogLineText[log[j]]

IsHeader(j) == NameSearch(LineAt(j)) # << >>

HasTimestamp(j) == \E p \in 1..Len(LineAt(j)) : TimestampAt(LineAt(j), p)

\* the lines read so far that are to yield a record, in input order
RECURSIVE RecordLines(_)
RecordLines(n) ==
    IF n = 0 THEN << >>
    ELSE IF ~IsHeader(n) /\ HasTimestamp(n)
    THEN Append(RecordLines(n - 1), n)
    ELSE RecordLines(n - 1)

\* the name of the last header line before line j, "unknown" if there is none
NameBefore(j) ==
    LET before == {h \in 1..(j - 1) : IsHeader(h)}
    IN  IF before = {} THEN Unknown ELSE NameSearch(LineAt(SetMax(before)))[1]

FirstTimestamp(j) ==
    LET p == SetMin({q \in 1..Len(LineAt(j)) : TimestampAt(LineAt(j), q)})
    IN  SubSeq(LineAt(j), p + 1, p + 8)

\* the signed decimal numbers that stand immediately before "dB" after the
\* first timestamp of line j
DbNumbers(j) ==
    LET line == LineAt(j)
        from == SetMin({q \in 1..Len(line) : TimestampAt(line, q)}) + 10
        span == {ab \in (from..Len(line)) \X (from..Len(line)) :
                    /\ ab[1] < ab[2]
                    /\ MatchAt(DbSuffix, line, ab[2])
                    /\ IsTraceNumber(SubSeq(line, ab[1], ab[2] - 1))}
    IN  {SubSeq(line, ab[1], ab[2] - 1) : ab \in span}

\* C2: a line with a timestamp that carries, later on the line, a signed
\* decimal number immediately before "dB" yields a record whose SNR is that
\* number; "null" is emitted only when the line has no such number.
C2_SnrIsTheNumberBeforeDb ==
    LET lines == RecordLines(line_no)
    IN  \A k \in 1..Len(data) :
            k <= Len(lines) =>
                /\ DbNumbers(lines[k]) # {} => data[k][3] \in DbNumbers(lines[k])
                /\ data[k][3] = Null => DbNumbers(lines[k]) = {}

\* C7: the test name starts as "unknown" and is carried forward: the records
\* are, in input order, one for every line read that matches the timestamp
\* pattern and not the header pattern, each with the name of the last header
\* line before it ("unknown" if none) and the line's timestamp; header lines
\* and lines matching neither pattern yield no record.
C7_NameCarriedForward ==
    lpc \in {"reading", "done"} =>
        LET lines == RecordLines(line_no)
        IN  /\ Len(data) = Len(lines)
            /\ \A k \in 1..Len(lines) :
                  /\ data[k][1] = NameBefore(lines[k])
                  /\ data[k][2] = FirstTimestamp(lines[k])
            /\ current_test_name = NameBefore(line_no + 1)
            /\ (lpc = "done" /\ file_exists) => csv = <<CsvHeader>> \o data

C7_Witness ==
    /\ lpc = "done"
    /\ log = <<"trace_fail", "hdr_with_ts", "bare_db">>
    /\ Len(data) = 2
    /\ data[1][1] = Unknown
    /\ data[2][1] = <<"d","i","l","l">>

====
